---- MODULE Spec2Model ----
(***************************************************************************)
(* Model of the AIDP MCP server's request dispatch core: the tool listing  *)
(* (handle_list_tools), the prefix router and the exception-to-envelope    *)
(* conversion (handle_call_tool), the feature modules' handlers, the       *)
(* response formatters, the lazily built OCI service clients and the       *)
(* retrying call_api wrapper.                                              *)
(*                                                                         *)
(* Scheduling: every handler is a coroutine that never awaits anything     *)
(* that suspends (call_api and the retry sleep are synchronous), so one    *)
(* handle_call_tool runs from entry to return before the event loop runs   *)
(* anything else.  The model keeps one running invocation, inv, and splits *)
(* it into steps only where the environment contributes an input: the      *)
(* outcome of building a client and the outcome of one backend attempt.    *)
(***************************************************************************)
EXTENDS Integers, Sequences, FiniteSets, TLC

VARIABLES
    settings,   \* _settings: [features, level], fixed after startup
    handles,    \* OCIClient._<service>_client: <<>> is None, else the handle
    built,      \* per service, the client constructions since __init__ / close()
    epoch,      \* the number of close() calls so far
    now,        \* the clock reading time.time() returns, in milliseconds
    inv,        \* the request (or the startup connection test) in progress
    issued      \* the request_ids of the invocations answered so far

vars == <<settings, handles, built, epoch, now, inv, issued>>

\* ---------------------------------------------------------------- bounds
MaxClock == 1          \* clock readings are 0..MaxClock
MaxCloses == 1         \* close() is called at most MaxCloses times

\* ------------------------------------------------------------- constants
None == "<None>"       \* Python's None as an argument value

Min(a, b) == IF a < b THEN a ELSE b
Max(a, b) == IF a > b THEN a ELSE b
Range(s) == {s[i] : i \in DOMAIN s}

\* str.startswith(prefix)
StartsWith(name, prefix) ==
    /\ Len(prefix) <= Len(name)
    /\ SubSeq(name, 1, Len(prefix)) = prefix

\* str.startswith(tuple of prefixes)
StartsWithAny(name, prefixes) == \E p \in prefixes : StartsWith(name, p)

\* ------------------------------------------------------- feature modules
Areas == <<"instance_management", "data_catalog", "object_storage",
           "compute_clusters", "notebooks", "jobs_workflows",
           "data_pipelines", "external_connections", "ml_models",
           "analytics_reporting">>

\* the module server.py consults for a feature flag
ModuleOf(area) ==
    CASE area = "instance_management"  -> "instance"
      [] area = "data_catalog"         -> "catalog"
      [] area = "object_storage"       -> "storage"
      [] area = "compute_clusters"     -> "compute"
      [] area = "notebooks"            -> "notebooks"
      [] area = "jobs_workflows"       -> "jobs"
      [] area = "data_pipelines"       -> "pipelines"
      [] area = "external_connections" -> "connections"
      [] area = "ml_models"            -> "ml_models"
      [] area = "analytics_reporting"  -> "analytics"

\* instance.get_tools(): name and inputSchema["required"] of each descriptor
InstanceTools == <<
    [name |-> "get_instance_status", required |-> <<>>],
    [name |-> "get_instance_metrics", required |-> <<>>],
    [name |-> "list_workspaces", required |-> <<>>],
    [name |-> "create_workspace", required |-> <<"workspace_name">>],
    [name |-> "get_workspace_details", required |-> <<"workspace_name">>],
    [name |-> "update_workspace", required |-> <<"workspace_name">>],
    [name |-> "delete_workspace", required |-> <<"workspace_name">>],
    [name |-> "list_workspace_users", required |-> <<"workspace_name">>],
    [name |-> "grant_workspace_access", required |-> <<"workspace_name", "user_id", "role">>],
    [name |-> "revoke_workspace_access", required |-> <<"workspace_name", "user_id">>] >>

\* catalog.get_tools(): tool_definitions, (name, property names)
CatalogToolDefinitions == <<
    [name |-> "list_catalog_objects", props |-> <<"limit", "filter">>],
    [name |-> "search_catalog", props |-> <<"query", "limit">>],
    [name |-> "get_object_metadata", props |-> <<"object_id">>],
    [name |-> "create_catalog_entry", props |-> <<"name", "type", "metadata">>],
    [name |-> "update_catalog_entry", props |-> <<"object_id", "metadata">>],
    [name |-> "delete_catalog_entry", props |-> <<"object_id">>],
    [name |-> "get_data_lineage", props |-> <<"object_id">>],
    [name |-> "list_databases", props |-> <<"limit">>],
    [name |-> "get_database_details", props |-> <<"database_id">>],
    [name |-> "list_schemas", props |-> <<"database_id">>],
    [name |-> "list_tables", props |-> <<"schema_id">>],
    [name |-> "get_table_schema", props |-> <<"table_id">>],
    [name |-> "get_table_statistics", props |-> <<"table_id">>],
    [name |-> "preview_table_data", props |-> <<"table_id", "limit">>],
    [name |-> "refresh_catalog", props |-> <<>>],
    [name |-> "set_object_tags", props |-> <<"object_id", "tags">>],
    [name |-> "get_object_tags", props |-> <<"object_id">>],
    [name |-> "export_catalog_metadata", props |-> <<"format">>],
    [name |-> "import_catalog_metadata", props |-> <<"file_path">>],
    [name |-> "validate_catalog_entry", props |-> <<"object_id">>] >>

\* the property names catalog.get_tools() marks as required
CatalogRequiredProps ==
    {"object_id", "name", "type", "database_id", "schema_id", "table_id"}

IsCatalogRequired(p) == p \in CatalogRequiredProps

\* catalog.get_tools(): the loop that builds one descriptor per definition
CatalogTools ==
    [i \in DOMAIN CatalogToolDefinitions |->
        [name |-> CatalogToolDefinitions[i].name,
         required |-> SelectSeq(CatalogToolDefinitions[i].props, IsCatalogRequired)]]

\* storage.get_tools()
StorageTools == <<
    [name |-> "list_buckets", required |-> <<>>],
    [name |-> "create_bucket", required |-> <<"bucket_name">>],
    [name |-> "get_bucket_details", required |-> <<"bucket_name">>],
    [name |-> "update_bucket", required |-> <<"bucket_name">>],
    [name |-> "delete_bucket", required |-> <<"bucket_name">>],
    [name |-> "list_objects", required |-> <<"bucket_name">>],
    [name |-> "upload_object", required |-> <<"bucket_name", "object_name", "file_path">>],
    [name |-> "download_object", required |-> <<"bucket_name", "object_name", "dest_path">>],
    [name |-> "get_object_metadata", required |-> <<"bucket_name", "object_name">>],
    [name |-> "update_object_metadata", required |-> <<"bucket_name", "object_name", "metadata">>],
    [name |-> "delete_object", required |-> <<"bucket_name", "object_name">>],
    [name |-> "copy_object", required |-> <<"source_bucket", "source_object", "dest_bucket", "dest_object">>],
    [name |-> "move_object", required |-> <<"source_bucket", "source_object", "dest_bucket", "dest_object">>],
    [name |-> "create_presigned_url", required |-> <<"bucket_name", "object_name">>],
    [name |-> "list_object_versions", required |-> <<"bucket_name", "object_name">>],
    [name |-> "restore_object_version", required |-> <<"bucket_name", "object_name", "version_id">>],
    [name |-> "set_object_lifecycle", required |-> <<"bucket_name", "rule_name", "action", "days">>],
    [name |-> "get_bucket_lifecycle", required |-> <<"bucket_name">>],
    [name |-> "bulk_upload", required |-> <<"bucket_name", "file_paths">>],
    [name |-> "bulk_download", required |-> <<"bucket_name", "object_names", "dest_directory">>] >>

\* compute.get_tools()
ComputeTools == <<
    [name |-> "list_clusters", required |-> <<>>],
    [name |-> "get_cluster_details", required |-> <<"cluster_id">>],
    [name |-> "create_cluster", required |-> <<"cluster_name">>],
    [name |-> "delete_cluster", required |-> <<"cluster_id">>],
    [name |-> "list_cluster_runs", required |-> <<>>],
    [name |-> "get_run_details", required |-> <<"run_id">>],
    [name |-> "create_run", required |-> <<"cluster_id">>],
    [name |-> "delete_run", required |-> <<"run_id">>],
    [name |-> "get_run_logs", required |-> <<"run_id">>],
    [name |-> "list_pools", required |-> <<>>],
    [name |-> "get_pool_details", required |-> <<"pool_id">>],
    [name |-> "create_pool", required |-> <<"pool_name">>],
    [name |-> "start_pool", required |-> <<"pool_id">>],
    [name |-> "stop_pool", required |-> <<"pool_id">>],
    [name |-> "delete_pool", required |-> <<"pool_id">>] >>

\* TOOL_COUNTS of the placeholder module template, and its default of 10
TOOL_COUNTS(module) ==
    CASE module = "compute"     -> 15
      [] module = "notebooks"   -> 15
      [] module = "jobs"        -> 20
      [] module = "pipelines"   -> 15
      [] module = "connections" -> 12
      [] module = "ml_models"   -> 15
      [] module = "analytics"   -> 10
      [] OTHER                  -> 10

\* str(i) for the tool numbers the template produces
Digit(d) == SubSeq("0123456789", d + 1, d + 1)
Str(i) == IF i < 10 THEN Digit(i) ELSE Digit(i \div 10) \o Digit(i % 10)

\* get_tools() of the placeholder template: f"{module_name}_{i+1}", no required
PlaceholderTools(module) ==
    [i \in 1..TOOL_COUNTS(module) |->
        [name |-> module \o "_" \o Str(i), required |-> <<>>]]

\* <module>.get_tools() as handle_list_tools calls it
GetTools(module) ==
    CASE module = "instance" -> InstanceTools
      [] module = "catalog"  -> CatalogTools
      [] module = "storage"  -> StorageTools
      [] module = "compute"  -> ComputeTools
      [] OTHER               -> PlaceholderTools(module)

RECURSIVE ExtendAllReversed(_, _)
\* a listing that puts each module's tools in front of the earlier ones
ExtendAllReversed(features, k) ==
    IF k = 0 THEN <<>>
    ELSE (IF features[Areas[k]] THEN GetTools(ModuleOf(Areas[k])) ELSE <<>>)
         \o ExtendAllReversed(features, k - 1)

RECURSIVE ExtendAll(_, _)
\* the chain of "if _settings.features.<area>: all_tools.extend(...)"
ExtendAll(features, k) ==
    IF k = 0 THEN <<>>
    ELSE ExtendAll(features, k - 1) \o
         (IF features[Areas[k]] THEN GetTools(ModuleOf(Areas[k])) ELSE <<>>)

\* handle_list_tools(): the descriptors, in module order
HandleListTools(features) == ExtendAll(features, Len(Areas))

Names(tools) == [i \in DOMAIN tools |-> tools[i].name]

\* ---------------------------------------------------------------- router
InstancePrefixes ==
    {"get_instance", "list_workspaces", "create_workspace", "get_workspace",
     "update_workspace", "delete_workspace", "grant_workspace",
     "revoke_workspace"}

CatalogPrefixes ==
    {"list_catalog", "search_catalog", "create_catalog", "update_catalog",
     "delete_catalog", "get_data_lineage", "list_databases", "get_database",
     "list_schemas", "list_tables", "get_table", "preview_table",
     "refresh_catalog", "set_object_tags", "get_object_tags",
     "export_catalog", "import_catalog", "validate_catalog"}

StoragePrefixes ==
    {"list_buckets", "create_bucket", "get_bucket", "update_bucket",
     "delete_bucket", "list_objects", "upload_object", "download_object",
     "get_object", "update_object", "delete_object", "copy_object",
     "move_object", "create_presigned", "list_object_versions",
     "restore_object", "set_object_lifecycle", "get_bucket_lifecycle",
     "bulk_upload", "bulk_download"}

NoModule == "<no module>"

\* handle_call_tool's if/elif chain: the module whose handle_tool_call runs
Route(name) ==
    IF StartsWithAny(name, InstancePrefixes) THEN "instance"
    ELSE IF StartsWithAny(name, CatalogPrefixes) THEN "catalog"
    ELSE IF StartsWithAny(name, StoragePrefixes) THEN "storage"
    ELSE IF StartsWith(name, "compute_") THEN "compute"
    ELSE IF StartsWith(name, "notebooks_") THEN "notebooks"
    ELSE IF StartsWith(name, "jobs_") THEN "jobs"
    ELSE IF StartsWith(name, "pipelines_") THEN "pipelines"
    ELSE IF StartsWith(name, "connections_") THEN "connections"
    ELSE IF StartsWith(name, "ml_models_") THEN "ml_models"
    ELSE IF StartsWith(name, "analytics_") THEN "analytics"
    ELSE NoModule

\* ----------------------------------------------------------- exceptions
\* utils/errors.py: the subclasses of AIDPError
AIDPErrors ==
    {"AuthenticationError", "AuthorizationError", "ResourceNotFoundError",
     "ResourceAlreadyExistsError", "ValidationError", "APIError",
     "ConfigurationError", "TimeoutError", "RateLimitError", "NetworkError",
     "InvalidStateError", "QuotaExceededError"}

EmptyDict == [k \in {} |-> None]

\* "no exception": the value an operator yields when nothing is raised
NoExc == [cls |-> None, message |-> "", details |-> EmptyDict,
          original_error |-> <<>>]

\* AIDPError.__init__(message, details=None, original_error=None);
\* original_error is <<>> for None and <<e>> for the wrapped exception e
AIDPError(cls, message, details, original_error) ==
    [cls |-> cls, message |-> message, details |-> details,
     original_error |-> original_error]

\* an exception that is not an AIDPError (ValueError, an SDK exception, ...)
OtherError(cls, message) ==
    [cls |-> cls, message |-> message, details |-> EmptyDict,
     original_error |-> <<>>]

\* isinstance(e, AIDPError)
IsAIDPError(e) == e.cls \in AIDPErrors

\* ----------------------------------------------------------- validators
IsMissing(data, field) == field \notin DOMAIN data \/ data[field] = None

\* a validator that reports the first missing field only
MissingFieldsFirstOnly(data, required_fields) ==
    IF SelectSeq(required_fields, LAMBDA f : IsMissing(data, f)) = <<>>
    THEN <<>>
    ELSE <<Head(SelectSeq(required_fields, LAMBDA f : IsMissing(data, f)))>>

\* validate_required_fields: the missing_fields list comprehension
MissingFields(data, required_fields) ==
    SelectSeq(required_fields, LAMBDA f : IsMissing(data, f))

\* validate_required_fields(data, required_fields): the exception it raises
ValidateRequiredFields(data, required_fields) ==
    IF MissingFields(data, required_fields) # <<>>
    THEN AIDPError("ValidationError", "Missing required fields",
                   [missing_fields |-> MissingFields(data, required_fields)],
                   <<>>)
    ELSE NoExc

WorkspaceNameChars ==
    "abcdefghijklmnopqrstuvwxyzABCDEFGHIJKLMNOPQRSTUVWXYZ0123456789_-"

CharIn(c, alphabet) ==
    \E k \in 1..Len(alphabet) : SubSeq(alphabet, k, k) = c

\* re.match(r"^[<alphabet>]+$", s)
MatchesAll(s, alphabet) ==
    /\ Len(s) > 0
    /\ \A k \in 1..Len(s) : CharIn(SubSeq(s, k, k), alphabet)

MaxWorkspaceNameLen == 100

\* validate_workspace_name(workspace_name): the exception it raises
ValidateWorkspaceName(workspace_name) ==
    IF workspace_name = ""
    THEN AIDPError("ValidationError", "Workspace name cannot be empty",
                   EmptyDict, <<>>)
    ELSE IF Len(workspace_name) > MaxWorkspaceNameLen
    THEN AIDPError("ValidationError",
                   "Workspace name too long (max 100 characters)",
                   [length |-> Len(workspace_name)], <<>>)
    ELSE IF ~MatchesAll(workspace_name, WorkspaceNameChars)
    THEN AIDPError("ValidationError",
                   "Workspace name contains invalid characters",
                   [workspace_name |-> workspace_name], <<>>)
    ELSE NoExc

\* str.endswith and the "in" operator on strings
EndsWith(name, suffix) ==
    /\ Len(name) >= Len(suffix)
    /\ SubSeq(name, Len(name) - Len(suffix) + 1, Len(name)) = suffix

Contains(s, sub) ==
    \E k \in 1..(Len(s) - Len(sub) + 1) : SubSeq(s, k, k + Len(sub) - 1) = sub

BucketNameChars ==
    "abcdefghijklmnopqrstuvwxyzABCDEFGHIJKLMNOPQRSTUVWXYZ0123456789._-"

MaxBucketNameLen == 256

\* a validate_bucket_name that looks for consecutive periods before it looks
\* at the first and last character
ValidateBucketNameConsecutiveFirst(bucket_name) ==
    IF bucket_name = "" \/ bucket_name = None
    THEN AIDPError("ValidationError", "Bucket name cannot be empty",
                   EmptyDict, <<>>)
    ELSE IF Len(bucket_name) > MaxBucketNameLen
    THEN AIDPError("ValidationError",
                   "Bucket name too long (max 256 characters)",
                   [length |-> Len(bucket_name)], <<>>)
    ELSE IF Contains(bucket_name, "..")
    THEN AIDPError("ValidationError",
                   "Bucket name cannot contain consecutive periods",
                   EmptyDict, <<>>)
    ELSE IF StartsWith(bucket_name, ".") \/ EndsWith(bucket_name, ".")
    THEN AIDPError("ValidationError",
                   "Bucket name cannot start or end with a period",
                   EmptyDict, <<>>)
    ELSE NoExc

\* validate_bucket_name(bucket_name): the exception it raises
ValidateBucketName(bucket_name) ==
    IF bucket_name = "" \/ bucket_name = None
    THEN AIDPError("ValidationError", "Bucket name cannot be empty",
                   EmptyDict, <<>>)
    ELSE IF Len(bucket_name) > MaxBucketNameLen
    THEN AIDPError("ValidationError",
                   "Bucket name too long (max 256 characters)",
                   [length |-> Len(bucket_name)], <<>>)
    ELSE IF StartsWith(bucket_name, ".") \/ EndsWith(bucket_name, ".")
    THEN AIDPError("ValidationError",
                   "Bucket name cannot start or end with a period",
                   EmptyDict, <<>>)
    ELSE IF Contains(bucket_name, "..")
    THEN AIDPError("ValidationError",
                   "Bucket name cannot contain consecutive periods",
                   EmptyDict, <<>>)
    ELSE IF ~MatchesAll(bucket_name, BucketNameChars)
    THEN AIDPError("ValidationError",
                   "Bucket name contains invalid characters",
                   [bucket_name |-> bucket_name,
                    allowed_characters |->
                        "alphanumeric, hyphen, underscore, period"], <<>>)
    ELSE NoExc

MaxObjectNameLen == 1024

\* validate_object_name(object_name): the exception it raises
ValidateObjectName(object_name) ==
    IF object_name = "" \/ object_name = None
    THEN AIDPError("ValidationError", "Object name cannot be empty",
                   EmptyDict, <<>>)
    ELSE IF Len(object_name) > MaxObjectNameLen
    THEN AIDPError("ValidationError",
                   "Object name too long (max 1024 characters)",
                   [length |-> Len(object_name)], <<>>)
    ELSE NoExc

\* ----------------------------------------------------------- formatters
\* an optional parameter: <<>> is None, <<v>> is the value v
Some(v) == <<v>>
Nothing == <<>>

\* round(execution_time_ms, 2); the clock is read in whole milliseconds
Round2(ms) == ms

\* format_success_response(data, request_id=None, execution_time_ms=None)
FormatSuccessResponse(data, request_id, execution_time_ms, timestamp) ==
    [success |-> TRUE,
     data |-> data,
     metadata |->
        [timestamp |-> timestamp]
        @@ (IF request_id # Nothing /\ request_id[1] # ""
            THEN [request_id |-> request_id[1]] ELSE EmptyDict)
        @@ (IF execution_time_ms # Nothing
            THEN [execution_time_ms |-> Round2(execution_time_ms[1])]
            ELSE EmptyDict)]

\* a format_error_response that also carries a "data" key
FormatErrorResponseWithData(error, request_id, include_traceback, timestamp) ==
    [success |-> FALSE,
     data |-> None,
     error |-> [type |-> error.cls, message |-> error.message],
     metadata |-> [timestamp |-> timestamp]]

\* format_error_response(error, request_id=None, include_traceback=False)
FormatErrorResponse(error, request_id, include_traceback, timestamp) ==
    [success |-> FALSE,
     error |->
        [type |-> error.cls, message |-> error.message]
        @@ (IF IsAIDPError(error) /\ error.details # EmptyDict
            THEN [details |-> error.details] ELSE EmptyDict)
        @@ (IF IsAIDPError(error) /\ error.original_error # <<>>
               /\ include_traceback
            THEN [original_error |-> error.original_error[1].message]
            ELSE EmptyDict),
     metadata |->
        [timestamp |-> timestamp]
        @@ (IF request_id # Nothing /\ request_id[1] # ""
            THEN [request_id |-> request_id[1]] ELSE EmptyDict)]

\* the error_response dict handle_call_tool builds in "except Exception"
UnexpectedErrorResponse(e, request_id, execution_time_ms, debug) ==
    [success |-> FALSE,
     error |-> [type |-> "UnexpectedError",
                message |-> e.message,
                traceback |-> IF debug THEN "traceback of " \o e.cls
                              ELSE None],
     metadata |-> [request_id |-> request_id,
                   execution_time_ms |-> Round2(execution_time_ms)]]

\* ------------------------------------------------------------- call_api
\* what a backend callable (api_func) raises; status is 0 unless ServiceError
BackendExc(cls, status) ==
    [cls |-> cls, status |-> status, message |-> "backend: " \o cls]

\* isinstance(e, cls) for the SDK's exceptions: ConnectTimeout is a
\* RequestException, everything is an Exception
IsInstance(e, cls) ==
    \/ e.cls = cls
    \/ cls = "Exception"
    \/ (cls = "RequestException" /\ e.cls = "ConnectTimeout")

\* a call_api whose "except RequestException" clause comes before its
\* "except ConnectTimeout" clause
ClassifyRequestExceptionFirst(e) ==
    IF e.cls = "ServiceError" /\ e.status = 401
    THEN AIDPError("AuthenticationError", "Authentication failed",
                   [code |-> "code", message |-> e.message], <<e>>)
    ELSE IF e.cls = "ServiceError" /\ e.status = 404
    THEN AIDPError("ResourceNotFoundError", e.message, [code |-> "code"], <<e>>)
    ELSE IF e.cls = "ServiceError" /\ e.status = 429
    THEN AIDPError("RateLimitError", "API rate limit exceeded",
                   [code |-> "code", message |-> e.message], <<e>>)
    ELSE IF e.cls \in {"RequestException", "ConnectTimeout"}
    THEN AIDPError("NetworkError",
                   "Network error while communicating with OCI",
                   EmptyDict, <<e>>)
    ELSE AIDPError("APIError", e.message, EmptyDict, <<e>>)

\* call_api's except clauses, in order: the AIDPError raised for e
Classify(e) ==
    IF IsInstance(e, "ServiceError") THEN
        IF e.status = 401
        THEN AIDPError("AuthenticationError", "Authentication failed",
                       [code |-> "code", message |-> e.message], Some(e))
        ELSE IF e.status = 404
        THEN AIDPError("ResourceNotFoundError", e.message,
                       [code |-> "code"], Some(e))
        ELSE IF e.status = 429
        THEN AIDPError("RateLimitError", "API rate limit exceeded",
                       [code |-> "code", message |-> e.message], Some(e))
        ELSE IF e.status >= 500
        THEN AIDPError("APIError", "OCI service error: " \o e.message,
                       [code |-> "code", status |-> e.status], Some(e))
        ELSE AIDPError("APIError", e.message,
                       [code |-> "code", status |-> e.status], Some(e))
    ELSE IF IsInstance(e, "ConnectTimeout")
    THEN AIDPError("TimeoutError", "Connection to OCI timed out",
                   EmptyDict, Some(e))
    ELSE IF IsInstance(e, "RequestException")
    THEN AIDPError("NetworkError",
                   "Network error while communicating with OCI",
                   EmptyDict, Some(e))
    ELSE AIDPError("APIError", "Unexpected error: " \o e.message,
                   EmptyDict, Some(e))

\* a retry condition that also retries the service's own errors
RetryIfServiceErrors(exc) ==
    exc.cls \in {"NetworkError", "TimeoutError", "APIError"}

\* retry=retry_if_exception_type((NetworkError, TimeoutError))
RetryIf(exc) == exc.cls \in {"NetworkError", "TimeoutError"}

\* stop=stop_after_attempt(3)
StopAfterAttempt == 3

RECURSIVE Pow2(_)
Pow2(n) == IF n = 0 THEN 1 ELSE 2 * Pow2(n - 1)

WaitMultiplier == 1
WaitMin == 2
WaitMax == 10

\* a wait strategy whose exponent is the attempt number itself
WaitExponentialFromOne(attempt_number) ==
    Max(2, Min(Pow2(attempt_number), 10))

\* wait=wait_exponential(multiplier=1, min=2, max=10): the seconds slept after
\* attempt number attempt_number (1 for the first attempt) has failed
WaitExponential(attempt_number) ==
    Max(Max(0, WaitMin),
        Min(WaitMultiplier * Pow2(attempt_number - 1), WaitMax))

\* a retry decision that allows one attempt more
RetryAgainOneMore(exc, attempt_number) ==
    exc.cls \in {"NetworkError", "TimeoutError"} /\ attempt_number < 4

\* a retry decision that gives up one attempt early
RetryAgainOneShort(exc, attempt_number) ==
    exc.cls \in {"NetworkError", "TimeoutError"} /\ attempt_number + 1 < 3

\* a retry decorator that takes its number of attempts from the settings
RetryAgainConfigured(exc, attempt_number) ==
    RetryIf(exc) /\ attempt_number < settings.performance.retry_max_attempts

\* the retry decorator's decision once attempt attempt_number raised exc:
\* TRUE to sleep and call again, FALSE to re-raise exc (reraise=True)
RetryAgain(exc, attempt_number) ==
    RetryIf(exc) /\ attempt_number < StopAfterAttempt

\* a retry decorator without reraise=True: when it gives up on an exception
\* it would have retried, it raises its own RetryError
RetryErrorOnStop(exc) ==
    IF RetryIf(exc)
    THEN OtherError("RetryError", "RetryError[<Future raised " \o exc.cls \o ">]")
    ELSE exc

\* what the retry decorator raises when it does not retry after an attempt
\* that raised exc: with reraise=True, exc itself
RaisedOnStop(exc) == exc

\* ------------------------------------------------------------- handlers
\* one backend call of a handler: the service client it takes from
\* oci_client, the operation it passes to call_api, and whether the call
\* sits in a try block of the handler that catches Exception
Call(svc, op, catch) == [svc |-> svc, op |-> op, catch |-> catch]

\* what a handler does up to its first backend call: the exception its
\* validation raises (NoExc if none) and the backend calls that follow
Raises(exc) == [exc |-> exc, plan |-> <<>>]
Runs(plan) == [exc |-> NoExc, plan |-> plan]

\* validate_required_fields first, then the calls
Validated(arguments, required_fields, plan) ==
    IF ValidateRequiredFields(arguments, required_fields) # NoExc
    THEN Raises(ValidateRequiredFields(arguments, required_fields))
    ELSE Runs(plan)

UnknownTool(name) ==
    Raises(AIDPError("ValidationError", "Unknown tool: " \o name,
                     EmptyDict, <<>>))

\* OCIClient.test_connection: both calls sit in try/except Exception
TestConnection ==
    << Call("identity", "get_tenancy", TRUE),
       Call("object_storage", "list_buckets", TRUE) >>

\* instance.handle_tool_call(name, arguments, oci_client)
InstanceHandler(name, arguments) ==
    CASE name = "get_instance_status" -> Runs(TestConnection)
      [] name = "get_instance_metrics" -> Runs(<<>>)
      [] name = "list_workspaces" -> Runs(<<>>)
      [] name = "create_workspace" ->
            IF ValidateRequiredFields(arguments, <<"workspace_name">>) # NoExc
            THEN Raises(ValidateRequiredFields(arguments, <<"workspace_name">>))
            ELSE IF ValidateWorkspaceName(arguments["workspace_name"]) # NoExc
            THEN Raises(ValidateWorkspaceName(arguments["workspace_name"]))
            ELSE Runs(<<>>)
      [] name = "get_workspace_details" ->
            Validated(arguments, <<"workspace_name">>, <<>>)
      [] name = "update_workspace" ->
            Validated(arguments, <<"workspace_name">>, <<>>)
      [] name = "delete_workspace" ->
            Validated(arguments, <<"workspace_name">>, <<>>)
      [] name = "list_workspace_users" ->
            Validated(arguments, <<"workspace_name">>, <<>>)
      [] name = "grant_workspace_access" ->
            Validated(arguments, <<"workspace_name", "user_id", "role">>, <<>>)
      [] name = "revoke_workspace_access" ->
            Validated(arguments, <<"workspace_name", "user_id">>, <<>>)
      [] OTHER -> UnknownTool(name)

\* catalog.handle_tool_call: the placeholder, no validation and no call
CatalogHandler(name, arguments) == Runs(<<>>)

\* handle_tool_call of the placeholder module template
PlaceholderHandler(name, arguments) == Runs(<<>>)

ObjectStorage(op) == Call("object_storage", op, FALSE)

\* the local files that exist: Path(file_path).expanduser().exists()
ExistingFiles == {"/data/report.csv"}
FileExists(file_path) == file_path \in ExistingFiles

\* storage.create_bucket(oci_client, bucket_name, ...): it builds the
\* CreateBucketDetails and calls the backend
CreateBucket(bucket_name) == Runs(<<ObjectStorage("create_bucket")>>)

\* an upload_object without the check that the file exists
UploadObjectUnchecked(bucket_name, object_name, file_path) ==
    [exc |-> NoExc, plan |-> <<ObjectStorage("put_object")>>]

\* storage.upload_object(oci_client, bucket_name, object_name, file_path, ...)
UploadObject(bucket_name, object_name, file_path) ==
    IF ~FileExists(file_path)
    THEN Raises(AIDPError("ValidationError", "File not found: " \o file_path,
                          [file_path |-> file_path], <<>>))
    ELSE Runs(<<ObjectStorage("put_object")>>)

\* Python's True and False as values of an arguments dict
PyTrue == "<True>"
PyFalse == "<False>"

\* "if value:" for the values an arguments dict holds
Truthy(value) == value \notin {PyFalse, None, ""}

\* dict.get(key, default)
Get(dict, key, default) == IF key \in DOMAIN dict THEN dict[key] ELSE default

\* the objects list_objects returns for the bucket delete_bucket empties
ListedObjects == <<"report.csv", "notes.txt">>

\* storage.delete_bucket: with force, list_objects and one delete_object
\* per listed object come before delete_bucket; none of the calls sits in a
\* try
DeleteBucket(bucket_name, force) ==
    Runs((IF Truthy(force)
          THEN <<ObjectStorage("list_objects")>>
               \o [k \in 1..Len(ListedObjects) |-> ObjectStorage("delete_object")]
          ELSE <<>>)
         \o <<ObjectStorage("delete_bucket")>>)

\* the longest list of items of a bulk tool
MaxItems == 2

\* the lists of up to MaxItems elements of a set
ListsOf(S) == UNION {[1..n -> S] : n \in 0..MaxItems}

\* the strings the lists of the bulk tools are made of
ListItems == {"/data/report.csv", "/nonexistent/file.txt", "report.csv", ""}

RECURSIVE Join(_)
Join(list) ==
    IF list = <<>> THEN ""
    ELSE "'" \o Head(list) \o "'"
         \o (IF Len(list) > 1 THEN ", " ELSE "") \o Join(Tail(list))

\* a list of strings as a value of an arguments dict: the dict holds the
\* list written out, Elements gives its elements back
ListValue(list) == "[" \o Join(list) \o "]"
\* the position of the first quote of text at or after position k, 0 if none
NextQuote(text, k) ==
    IF \E q \in k..Len(text) : SubSeq(text, q, q) = "'"
    THEN CHOOSE q \in k..Len(text) :
             /\ SubSeq(text, q, q) = "'"
             /\ \A r \in k..(q - 1) : SubSeq(text, r, r) # "'"
    ELSE 0

RECURSIVE ElementsFrom(_, _)
ElementsFrom(text, k) ==
    LET open == NextQuote(text, k)
        close == NextQuote(text, open + 1)
    IN  IF open = 0 THEN <<>>
        ELSE <<SubSeq(text, open + 1, close - 1)>> \o ElementsFrom(text, close + 1)

Elements(value) == ElementsFrom(value, 1)

\* a step of a handler's loop that fails before any backend call, inside the
\* loop's try
LocalFailure == Call("<local>", "exists", TRUE)

\* a bulk_upload whose backend calls are outside the loop's try
BulkUploadUncaught(bucket_name, file_paths, prefix) ==
    LET paths == Elements(file_paths)
    IN  Runs([k \in 1..Len(paths) |->
                 IF FileExists(paths[k])
                 THEN Call("object_storage", "put_object", FALSE)
                 ELSE LocalFailure])

\* storage.bulk_upload: upload_object for every file, each in
\* try/except Exception; a file that does not exist makes upload_object
\* raise before its backend call
BulkUpload(bucket_name, file_paths, prefix) ==
    LET paths == Elements(file_paths)
    IN  Runs([k \in 1..Len(paths) |->
                 IF FileExists(paths[k])
                 THEN Call("object_storage", "put_object", TRUE)
                 ELSE LocalFailure])

\* the directories Path.mkdir(parents=True, exist_ok=True) can create
CreatableDirectories == {"/tmp/downloads"}

\* storage.bulk_download: the destination directory is created, then
\* download_object for every object, each in try/except Exception
BulkDownload(bucket_name, object_names, dest_directory) ==
    IF dest_directory \notin CreatableDirectories
    THEN Raises(OtherError("PermissionError",
                           "[Errno 13] Permission denied: " \o dest_directory))
    ELSE Runs([k \in 1..Len(Elements(object_names)) |->
                  Call("object_storage", "get_object", TRUE)])

\* a move_object that catches the failure of its copy and goes on
MoveObjectCopyCaught(source_bucket, source_object, dest_bucket, dest_object) ==
    Runs(<<Call("object_storage", "copy_object", TRUE),
           ObjectStorage("delete_object")>>)

\* storage.move_object: "await copy_object(...)", then
\* "await delete_object(...)", neither in a try
MoveObject(source_bucket, source_object, dest_bucket, dest_object) ==
    Runs(<<ObjectStorage("copy_object"), ObjectStorage("delete_object")>>)

\* storage.handle_tool_call: validation, then the handler's call_api calls
StorageHandler(name, arguments) ==
    CASE name = "list_buckets" -> Runs(<<ObjectStorage("list_buckets")>>)
      [] name = "create_bucket" ->
            IF ValidateRequiredFields(arguments, <<"bucket_name">>) # NoExc
            THEN Raises(ValidateRequiredFields(arguments, <<"bucket_name">>))
            ELSE IF ValidateBucketName(arguments["bucket_name"]) # NoExc
            THEN Raises(ValidateBucketName(arguments["bucket_name"]))
            ELSE CreateBucket(arguments["bucket_name"])
      [] name = "upload_object" ->
            IF ValidateRequiredFields(arguments,
                   <<"bucket_name", "object_name", "file_path">>) # NoExc
            THEN Raises(ValidateRequiredFields(arguments,
                            <<"bucket_name", "object_name", "file_path">>))
            ELSE IF ValidateObjectName(arguments["object_name"]) # NoExc
            THEN Raises(ValidateObjectName(arguments["object_name"]))
            ELSE UploadObject(arguments["bucket_name"],
                              arguments["object_name"], arguments["file_path"])
      [] name = "get_bucket_details" ->
            Validated(arguments, <<"bucket_name">>,
                      <<ObjectStorage("get_bucket")>>)
      [] name = "delete_bucket" ->
            IF ValidateRequiredFields(arguments, <<"bucket_name">>) # NoExc
            THEN Raises(ValidateRequiredFields(arguments, <<"bucket_name">>))
            ELSE DeleteBucket(arguments["bucket_name"],
                              Get(arguments, "force", PyFalse))
      [] name = "bulk_upload" ->
            IF ValidateRequiredFields(arguments,
                   <<"bucket_name", "file_paths">>) # NoExc
            THEN Raises(ValidateRequiredFields(arguments,
                            <<"bucket_name", "file_paths">>))
            ELSE BulkUpload(arguments["bucket_name"], arguments["file_paths"],
                            Get(arguments, "prefix", None))
      [] name = "bulk_download" ->
            IF ValidateRequiredFields(arguments,
                   <<"bucket_name", "object_names", "dest_directory">>) # NoExc
            THEN Raises(ValidateRequiredFields(arguments,
                            <<"bucket_name", "object_names", "dest_directory">>))
            ELSE BulkDownload(arguments["bucket_name"],
                              arguments["object_names"],
                              arguments["dest_directory"])
      [] name = "update_bucket" ->
            Validated(arguments, <<"bucket_name">>,
                      <<ObjectStorage("update_bucket")>>)
      [] name = "list_objects" ->
            Validated(arguments, <<"bucket_name">>,
                      <<ObjectStorage("list_objects")>>)
      [] name = "get_object_metadata" ->
            Validated(arguments, <<"bucket_name", "object_name">>,
                      <<ObjectStorage("head_object")>>)
      [] name = "update_object_metadata" ->
            Validated(arguments, <<"bucket_name", "object_name", "metadata">>,
                      <<ObjectStorage("copy_object")>>)
      [] name = "delete_object" ->
            Validated(arguments, <<"bucket_name", "object_name">>,
                      <<ObjectStorage("delete_object")>>)
      [] name = "copy_object" ->
            Validated(arguments,
                      <<"source_bucket", "source_object", "dest_bucket", "dest_object">>,
                      <<ObjectStorage("copy_object")>>)
      [] name = "move_object" ->
            IF ValidateRequiredFields(arguments,
                   <<"source_bucket", "source_object", "dest_bucket",
                     "dest_object">>) # NoExc
            THEN Raises(ValidateRequiredFields(arguments,
                            <<"source_bucket", "source_object", "dest_bucket",
                              "dest_object">>))
            ELSE MoveObject(arguments["source_bucket"],
                            arguments["source_object"],
                            arguments["dest_bucket"], arguments["dest_object"])
      [] name = "create_presigned_url" ->
            Validated(arguments, <<"bucket_name", "object_name">>, <<>>)
      [] name = "list_object_versions" ->
            Validated(arguments, <<"bucket_name", "object_name">>, <<>>)
      [] name = "restore_object_version" ->
            Validated(arguments, <<"bucket_name", "object_name", "version_id">>, <<>>)
      [] name = "set_object_lifecycle" ->
            Validated(arguments, <<"bucket_name", "rule_name", "action", "days">>,
                      <<ObjectStorage("put_object_lifecycle_policy")>>)
      [] name = "get_bucket_lifecycle" ->
            Validated(arguments, <<"bucket_name">>,
                      <<ObjectStorage("get_object_lifecycle_policy")>>)
      [] OTHER -> UnknownTool(name)

DataFlow(op) == Call("data_flow", op, FALSE)

\* compute.handle_tool_call(name, arguments, oci_client)
ComputeHandler(name, arguments) ==
    CASE name = "list_clusters" -> Runs(<<DataFlow("list_applications")>>)
      [] name = "get_cluster_details" ->
            Validated(arguments, <<"cluster_id">>, <<DataFlow("get_application")>>)
      [] name = "create_cluster" ->
            Validated(arguments, <<"cluster_name">>, <<DataFlow("create_application")>>)
      [] name = "delete_cluster" ->
            Validated(arguments, <<"cluster_id">>, <<DataFlow("delete_application")>>)
      [] name = "list_cluster_runs" -> Runs(<<DataFlow("list_runs")>>)
      [] name = "get_run_details" ->
            Validated(arguments, <<"run_id">>, <<DataFlow("get_run")>>)
      [] name = "create_run" ->
            Validated(arguments, <<"cluster_id">>, <<DataFlow("create_run")>>)
      [] name = "delete_run" ->
            Validated(arguments, <<"run_id">>, <<DataFlow("delete_run")>>)
      [] name = "get_run_logs" ->
            Validated(arguments, <<"run_id">>, <<DataFlow("list_run_logs")>>)
      [] name = "list_pools" -> Runs(<<DataFlow("list_pools")>>)
      [] name = "get_pool_details" ->
            Validated(arguments, <<"pool_id">>, <<DataFlow("get_pool")>>)
      [] name = "create_pool" ->
            Validated(arguments, <<"pool_name">>, <<DataFlow("create_pool")>>)
      [] name = "start_pool" ->
            Validated(arguments, <<"pool_id">>, <<DataFlow("start_pool")>>)
      [] name = "stop_pool" ->
            Validated(arguments, <<"pool_id">>, <<DataFlow("stop_pool")>>)
      [] name = "delete_pool" ->
            Validated(arguments, <<"pool_id">>, <<DataFlow("delete_pool")>>)
      [] OTHER -> UnknownTool(name)

\* <module>.handle_tool_call(name, arguments, _oci_client)
HandleToolCall(module, name, arguments) ==
    CASE module = "instance" -> InstanceHandler(name, arguments)
      [] module = "catalog"  -> CatalogHandler(name, arguments)
      [] module = "storage"  -> StorageHandler(name, arguments)
      [] module = "compute"  -> ComputeHandler(name, arguments)
      [] OTHER               -> PlaceholderHandler(name, arguments)

\* ------------------------------------------------------ handle_call_tool
\* f"req_{int(start_time * 1000)}"
RequestId(start_time) == "req_" \o Str(start_time)

\* a handle_call_tool with the "except AIDPError" clause only
ExceptClauseAIDPOnly(e) == IF e.cls \in AIDPErrors THEN "AIDPError" ELSE "uncaught"

\* which except clause of handle_call_tool takes exception e; every exception
\* the handlers raise derives from Exception
ExceptClause(e) == IF IsAIDPError(e) THEN "AIDPError" ELSE "Exception"

Services == {"object_storage", "identity", "resource_search", "data_flow",
             "data_catalog"}

\* no invocation in progress
InvIdle ==
    [pc |-> "idle", kind |-> "none", name |-> "", arguments |-> EmptyDict,
     start_time |-> 0, request_id |-> "", module |-> NoModule,
     todo |-> <<>>, client |-> <<>>, tried |-> <<>>, waits |-> <<>>,
     last |-> "", ops |-> <<>>, results |-> <<>>, exc |-> None,
     returned |-> <<>>, cancelled |-> FALSE]

\* the fields of inv: pc is where the request stands ("idle", "access" before
\* a service client is taken, "call" before a backend attempt, "wait" before
\* a retry sleep, "done" once answered); kind is "tool", "list", "startup"
\* or, for a module function called without the dispatcher, "direct";
\* module is the module whose handler ran; todo the handler's backend calls
\* still to make; client the handle the current call uses; tried the
\* exception classes call_api raised in the attempts of the current call,
\* waits the sleeps between them, last how that call ended ("" while it
\* runs, "ok", or the class call_api raised); ops every backend attempt of
\* the request; results the handler's per-call results; exc the class of the
\* exception the handler raised to handle_call_tool; returned the answer;
\* cancelled whether the request's cancellation has been asked for

\* the "status" of a results entry of a bulk tool
ItemStatus(result) == IF result = "ok" THEN "success" ELSE "failed"

\* how many entries of a results list have the status
CountOf(results, status) ==
    Cardinality({k \in DOMAIN results : results[k] = status})

\* the data a handler passes to format_success_response; the bulk tools
\* report one entry per item with its status (the entry's error text is not
\* kept)
HandlerData(i) ==
    IF i.kind = "tool" /\ i.module = "storage" /\ i.name = "bulk_upload"
    THEN LET file_paths == Elements(i.arguments["file_paths"])
         IN  [bucket_name |-> i.arguments["bucket_name"],
              total_files |-> Len(file_paths),
              successful |-> CountOf(i.results, "ok"),
              failed |-> CountOf(i.results, "failed"),
              results |-> [k \in DOMAIN i.results |->
                              [file |-> file_paths[k],
                               status |-> ItemStatus(i.results[k])]]]
    ELSE IF i.kind = "tool" /\ i.module = "storage" /\ i.name = "bulk_download"
    THEN LET object_names == Elements(i.arguments["object_names"])
         IN  [bucket_name |-> i.arguments["bucket_name"],
              dest_directory |-> i.arguments["dest_directory"],
              total_objects |-> Len(object_names),
              successful |-> CountOf(i.results, "ok"),
              failed |-> CountOf(i.results, "failed"),
              results |-> [k \in DOMAIN i.results |->
                              [object |-> object_names[k],
                               status |-> ItemStatus(i.results[k])]]]
    ELSE [tool |-> i.name, results |-> i.results]

\* the envelope handle_call_tool returns: the handler's own
\* format_success_response(data) if it returned, else the except clause's
Envelope(i, exc) ==
    IF exc = NoExc
    THEN FormatSuccessResponse(HandlerData(i), Nothing, Nothing, now)
    ELSE IF ExceptClause(exc) = "AIDPError"
    THEN FormatErrorResponse(exc, Some(i.request_id),
                             settings.level = "DEBUG", now)
    ELSE UnexpectedErrorResponse(exc, i.request_id, now - i.start_time,
                                 settings.level = "DEBUG")

\* the handler has returned (exc = NoExc) or raised exc to handle_call_tool;
\* the startup connection test returns to initialize_server instead, and a
\* module function called directly returns or raises to its caller
Finish(i, exc) ==
    IF i.kind = "startup" THEN InvIdle
    ELSE IF i.kind = "direct"
    THEN [i EXCEPT !.pc = "done", !.todo = <<>>, !.exc = exc.cls,
                   !.returned = IF exc = NoExc
                                THEN <<FormatSuccessResponse(HandlerData(i),
                                                             Nothing, Nothing, now)>>
                                ELSE <<>>]
    ELSE IF exc # NoExc /\ ExceptClause(exc) \notin {"AIDPError", "Exception"}
    THEN [i EXCEPT !.pc = "crashed", !.todo = <<>>, !.exc = exc.cls]
    ELSE [i EXCEPT !.pc = "done", !.todo = <<>>, !.exc = exc.cls,
                   !.returned = <<Envelope(i, exc)>>]

\* the current backend call of the handler is over, with result res
StepOver(i, res) ==
    IF Len(i.todo) = 1
    THEN Finish([i EXCEPT !.results = Append(@, res)], NoExc)
    ELSE [i EXCEPT !.pc = "access", !.todo = Tail(@),
                   !.results = Append(@, res)]

\* the current backend call raised exc: into the handler's own except
\* clause if the call sits in one, else out of the handler
StepRaised(i, exc) ==
    IF Head(i.todo).catch THEN StepOver(i, "failed") ELSE Finish(i, exc)

\* call_api is entered with the bound method of client as api_func
BeginCall(i, client) ==
    [i EXCEPT !.pc = "call", !.client = client, !.tried = <<>>,
              !.waits = <<>>, !.last = ""]

\* a property that constructs a client on every access
NeedsConstructionAlways(handle) == TRUE

\* "if self._<service>_client is None"
NeedsConstruction(handle) == handle = <<>>

\* ----------------------------------------------------------------- inputs
AllEnabled == [a \in Range(Areas) |-> TRUE]
Without(area) == [AllEnabled EXCEPT ![area] = FALSE]

\* PerformanceConfig's defaults
PerformanceConfig ==
    [request_timeout_seconds |-> 300, max_concurrent_requests |-> 10,
     retry_max_attempts |-> 3, retry_backoff_seconds |-> 2,
     connection_pool_size |-> 20]

IsDigits(s) == MatchesAll(s, "0123456789")

RECURSIVE DigitsValue(_)
DigitsValue(s) ==
    IF s = "" THEN 0
    ELSE DigitsValue(SubSeq(s, 1, Len(s) - 1)) * 10
         + (CHOOSE d \in 0..9 : Digit(d) = SubSeq(s, Len(s), Len(s)))

\* int(s) for a string: its value, or Nothing where int raises ValueError
IntOf(s) ==
    IF IsDigits(s) THEN Some(DigitsValue(s))
    ELSE IF Len(s) > 1 /\ SubSeq(s, 1, 1) = "+" /\ IsDigits(SubSeq(s, 2, Len(s)))
    THEN Some(DigitsValue(SubSeq(s, 2, Len(s))))
    ELSE IF Len(s) > 1 /\ SubSeq(s, 1, 1) = "-" /\ IsDigits(SubSeq(s, 2, Len(s)))
    THEN Some(0 - DigitsValue(SubSeq(s, 2, Len(s))))
    ELSE Nothing

\* Settings._apply_env_overrides for MAX_RETRIES: an unset or empty
\* variable and one int() rejects leave the setting as it is
ApplyEnvOverrides(performance, max_retries) ==
    IF max_retries \in {None, ""} \/ IntOf(max_retries) = Nothing
    THEN performance
    ELSE [performance EXCEPT !.retry_max_attempts = IntOf(max_retries)[1]]

\* the configurations the server is started with: the features and the log
\* level, and the performance section as the file and MAX_RETRIES give it
Configs ==
    {[features |-> AllEnabled, level |-> "INFO",
      performance |-> ApplyEnvOverrides(PerformanceConfig, "many")],
     [features |-> AllEnabled, level |-> "DEBUG",
      performance |->
          ApplyEnvOverrides([PerformanceConfig EXCEPT
                                 !.retry_backoff_seconds = 30], "5")],
     [features |-> Without("object_storage"), level |-> "INFO",
      performance |->
          ApplyEnvOverrides([PerformanceConfig EXCEPT
                                 !.retry_max_attempts = 7,
                                 !.retry_backoff_seconds = 1], "1")]}

\* tool names that are in no module's tool list
UnknownNames == {"list_catalog_x", "notebooks_999", "compute_1", "frobnicate"}

\* the tool names the invocations use
CallNames ==
    {"get_instance_status", "list_workspaces", "get_workspace_details",
     "list_workspace_users",
     "list_catalog_objects", "get_table_schema", "get_object_metadata",
     "list_buckets", "get_bucket_details", "move_object",
     "list_clusters", "get_cluster_details", "notebooks_1",
     "create_bucket", "upload_object"}
    \cup UnknownNames

Modules == {ModuleOf(Areas[k]) : k \in DOMAIN Areas}

\* the descriptors registered under a name, by whichever module
Descriptors(name) ==
    UNION {{GetTools(m)[k] : k \in {j \in DOMAIN GetTools(m) :
                                        GetTools(m)[j].name = name}}
           : m \in Modules}

AllPresent(fields) == [f \in Range(fields) |-> "value"]

\* bucket names, object names and local paths to call with
BucketNames == {"my-bucket", ".invalid-bucket", "invalid..bucket", "bucket.",
                "my bucket", ""}
ObjectNames == {"report.csv", ""}
FilePaths == {"/data/report.csv", "/nonexistent/file.txt"}

\* the arguments of the module functions that are called directly
FunctionArgs(fn) ==
    CASE fn = "create_bucket" -> {[bucket_name |-> b] : b \in BucketNames}
      [] fn = "upload_object" ->
            {[bucket_name |-> "my-bucket", object_name |-> o, file_path |-> f]
                : o \in ObjectNames, f \in FilePaths}
      [] OTHER -> {}

FunctionNames == {"create_bucket", "upload_object"}

\* arguments with every required field of a descriptor, with one of them
\* left out, and with one of them null; for the tools above, also theirs
ArgChoices(name) ==
    {EmptyDict}
    \cup FunctionArgs(name)
    \cup {AllPresent(d.required) : d \in Descriptors(name)}
    \cup UNION {{[f \in Range(d.required) \ {g} |-> "value"]
                 : g \in Range(d.required)} : d \in Descriptors(name)}
    \cup UNION {{[AllPresent(d.required) EXCEPT ![g] = None]
                 : g \in Range(d.required)} : d \in Descriptors(name)}

\* the arguments parameter of handle_call_tool: None, or one of the above
Inputs ==
    [name \in CallNames |-> {Nothing} \cup {Some(a) : a \in ArgChoices(name)}]

\* what one backend attempt does: returns, or raises one of these
ServiceStatuses == {400, 401, 404, 429, 500}

NoBackendExc == BackendExc(None, 0)

\* the same failure as another one, with a different message from the service
Saying(e, message) == [e EXCEPT !.message = message]

BackendExcs ==
    {BackendExc("ServiceError", st) : st \in ServiceStatuses}
    \cup {Saying(BackendExc("ServiceError", 404),
                 "backend: bucket payroll not found in namespace acme")}
    \cup {BackendExc("ConnectTimeout", 0), BackendExc("RequestException", 0),
          BackendExc("RuntimeError", 0)}

\* ------------------------------------------------------------------ state
Init ==
    /\ settings \in Configs
    /\ handles = [s \in Services |-> <<>>]
    /\ built = [s \in Services |-> 0]
    /\ epoch = 0
    /\ now = 0
    /\ inv = [InvIdle EXCEPT !.pc = "access", !.kind = "startup",
                             !.todo = TestConnection]
    /\ issued = {}

\* time passes
Tick ==
    /\ now < MaxClock
    /\ now' = now + 1
    /\ UNCHANGED <<issued, settings, handles, built, epoch, inv>>

\* handle_list_tools(): a request of its own, answered with the tool list
ListTools ==
    /\ inv.pc = "idle"
    /\ inv' = [InvIdle EXCEPT !.pc = "done", !.kind = "list",
                              !.returned = <<Names(HandleListTools(settings.features))>>]
    /\ UNCHANGED <<issued, settings, handles, built, epoch, now>>

\* the response is sent and the request's state is dropped
Deliver ==
    /\ inv.pc = "done"
    /\ inv' = InvIdle
    /\ issued' = IF inv.kind = "tool" THEN issued \cup {inv.request_id}
                 ELSE issued
    /\ UNCHANGED <<settings, handles, built, epoch, now>>

\* handle_call_tool(name, arguments) from its entry to the handler's first
\* backend call, or to its return when the handler makes none
CallTool(name, arguments) ==
    /\ inv.pc = "idle"
    /\ LET args == IF arguments = Nothing THEN EmptyDict ELSE arguments[1]
           module == Route(name)
           i == [InvIdle EXCEPT !.kind = "tool", !.name = name,
                                !.arguments = args, !.start_time = now,
                                !.request_id = RequestId(now),
                                !.module = module]
       IN  IF module = NoModule
           THEN inv' = Finish(i, OtherError("ValueError", "Unknown tool: " \o name))
           ELSE LET h == HandleToolCall(module, name, args)
                IN  IF h.exc # NoExc THEN inv' = Finish(i, h.exc)
                    ELSE IF h.plan = <<>> THEN inv' = Finish(i, NoExc)
                    ELSE inv' = [i EXCEPT !.pc = "access", !.todo = h.plan]
    /\ UNCHANGED <<issued, settings, handles, built, epoch, now>>

\* storage.<fn>(oci_client, ...), called without the dispatcher
ModuleFunction(fn, args) ==
    CASE fn = "create_bucket" -> CreateBucket(args.bucket_name)
      [] fn = "upload_object" ->
            UploadObject(args.bucket_name, args.object_name, args.file_path)

\* a module function is called directly, as the tests of the repository do
CallFunction(fn, args) ==
    /\ inv.pc = "idle"
    /\ LET i == [InvIdle EXCEPT !.kind = "direct", !.name = fn,
                                !.arguments = args, !.module = "storage"]
           h == ModuleFunction(fn, args)
       IN  IF h.exc # NoExc THEN inv' = Finish(i, h.exc)
           ELSE IF h.plan = <<>> THEN inv' = Finish(i, NoExc)
           ELSE inv' = [i EXCEPT !.pc = "access", !.todo = h.plan]
    /\ UNCHANGED <<issued, settings, handles, built, epoch, now>>

\* oci_client.<service>: the lazily initialising property; ok says whether
\* the SDK client's constructor returns (it raises otherwise)
AccessClient(ok) ==
    /\ inv.pc = "access"
    /\ Head(inv.todo) # LocalFailure
    /\ LET svc == Head(inv.todo).svc
       IN  IF ~NeedsConstruction(handles[svc])
           THEN /\ ok
                /\ inv' = BeginCall(inv, handles[svc])
                /\ UNCHANGED <<handles, built>>
           ELSE IF ok
           THEN /\ handles' = [handles EXCEPT ![svc] = <<epoch, built[svc] + 1>>]
                /\ built' = [built EXCEPT ![svc] = @ + 1]
                /\ inv' = BeginCall(inv, <<epoch, built[svc] + 1>>)
           ELSE /\ inv' = StepRaised([inv EXCEPT !.tried = <<>>, !.waits = <<>>,
                                                  !.last = ""],
                                     OtherError("InvalidConfig",
                                                "client construction failed"))
                /\ UNCHANGED <<handles, built>>
    /\ UNCHANGED <<issued, settings, epoch, now>>

\* the next step of the handler's loop raises before it reaches the backend
\* and the loop's except clause records the failure
LocalStep ==
    /\ inv.pc = "access"
    /\ Head(inv.todo) = LocalFailure
    /\ inv' = StepOver(inv, "failed")
    /\ UNCHANGED <<issued, settings, handles, built, epoch, now>>

\* one attempt of call_api: api_func returns, or raises e, which call_api
\* converts and the retry decorator either retries or re-raises
Attempt(e) ==
    /\ inv.pc = "call"
    /\ LET i == [inv EXCEPT !.ops = Append(@, Head(inv.todo).op)]
           attempt_number == Len(inv.tried) + 1
       IN  IF e = NoBackendExc
           THEN inv' = StepOver([i EXCEPT !.last = "ok"], "ok")
           ELSE IF RetryAgain(Classify(e), attempt_number)
           THEN inv' = [i EXCEPT !.pc = "wait",
                                 !.tried = Append(@, Classify(e).cls)]
           ELSE inv' = StepRaised([i EXCEPT !.tried = Append(@, Classify(e).cls),
                                            !.last = RaisedOnStop(Classify(e)).cls],
                                  RaisedOnStop(Classify(e)))
    /\ UNCHANGED <<issued, settings, handles, built, epoch, now>>

\* the retry decorator sleeps before the next attempt
Backoff ==
    /\ inv.pc = "wait"
    /\ inv' = [inv EXCEPT !.pc = "call",
                          !.waits = Append(@, WaitExponential(Len(inv.tried)))]
    /\ UNCHANGED <<issued, settings, handles, built, epoch, now>>

\* the cancellation of the invocation is requested while its retry loop
\* sleeps between two attempts. A cancellation is delivered to a coroutine
\* where it is suspended in an await; call_api and its sleep are plain
\* calls, so the request stays pending and the loop goes on.
Cancel ==
    /\ inv.kind = "tool" /\ inv.pc = "wait"
    /\ ~inv.cancelled
    /\ inv' = [inv EXCEPT !.cancelled = TRUE]
    /\ UNCHANGED <<issued, settings, handles, built, epoch, now>>

\* a close() that leaves the handles in place
CloseLeavesHandles ==
    /\ inv.pc = "idle"
    /\ epoch < MaxCloses
    /\ epoch' = epoch + 1
    /\ UNCHANGED <<issued, settings, handles, built, now, inv>>

\* OCIClient.close()
Close ==
    /\ inv.pc = "idle"
    /\ epoch < MaxCloses
    /\ handles' = [s \in Services |-> <<>>]
    /\ built' = [s \in Services |-> 0]
    /\ epoch' = epoch + 1
    /\ UNCHANGED <<issued, settings, now, inv>>

Next ==
    \/ Tick
    \/ ListTools
    \/ Deliver
    \/ \E name \in CallNames :
         \E arguments \in Inputs[name] : CallTool(name, arguments)
    \/ \E fn \in FunctionNames :
         \E args \in FunctionArgs(fn) : CallFunction(fn, args)
    \/ \E ok \in BOOLEAN : AccessClient(ok)
    \/ \E e \in {NoBackendExc} \cup BackendExcs : Attempt(e)
    \/ Backoff
    \/ Cancel
    \/ Close

Spec == Init /\ [][Next]_vars

\* =============================================================== properties
\* a tool invocation has been answered; Response is the envelope it returned
Answered == inv.kind = "tool" /\ inv.pc = "done"
Response == inv.returned[1]

\* error.type of an envelope, None for an envelope without "error"
ErrorType(env) == IF "error" \in DOMAIN env THEN env.error.type ELSE None

\* the names handle_list_tools returns under the running configuration
ListedNames == Range(Names(HandleListTools(settings.features)))

\* the names some module registers, whatever the configuration
AllToolNames == UNION {Range(Names(GetTools(m))) : m \in Modules}

\* a module's handle_tool_call ran for the invocation
HandlerInvoked == inv.module # NoModule

\* C1: an invocation whose name matches no registered tool is answered with
\* an envelope of success = false and error.type ValidationError, and no
\* module's handler is invoked for it. This includes names that only share a
\* prefix with registered tools ("list_catalog_x", "notebooks_999").
C1_UnknownToolRejected ==
    (Answered /\ inv.name \notin AllToolNames)
        => /\ Response.success = FALSE
           /\ ErrorType(Response) = "ValidationError"
           /\ ~HandlerInvoked

\* the required fields a listed descriptor of the invoked tool declares and
\* the arguments omit or set to None
OmittedRequired ==
    {f \in UNION {Range(d.required) : d \in Descriptors(inv.name)} :
        IsMissing(inv.arguments, f)}

\* C2: an invocation of a listed tool that omits a field its descriptor
\* requires (or passes None for it) makes no backend call at any point and is
\* answered with a ValidationError envelope whose details.missing_fields
\* names the omitted field.
C2_MissingFieldRejected ==
    (inv.kind = "tool" /\ inv.name \in ListedNames /\ OmittedRequired # {})
        => /\ inv.ops = <<>>
           /\ inv.pc = "done" =>
                /\ Response.success = FALSE
                /\ ErrorType(Response) = "ValidationError"
                /\ "details" \in DOMAIN Response.error
                /\ "missing_fields" \in DOMAIN Response.error.details
                /\ OmittedRequired \subseteq
                       Range(Response.error.details.missing_fields)

\* the current (or last) call_api call of the request has raised, and every
\* attempt of it raised TimeoutError
CallFailedOnTimeouts ==
    /\ inv.last \notin {"", "ok"}
    /\ inv.tried # <<>>
    /\ \A k \in DOMAIN inv.tried : inv.tried[k] = "TimeoutError"

\* the invoked handler wraps a backend call in a try block of its own
HandlerCatches ==
    /\ HandlerInvoked
    /\ \E k \in DOMAIN HandleToolCall(inv.module, inv.name, inv.arguments).plan :
          HandleToolCall(inv.module, inv.name, inv.arguments).plan[k].catch

\* C3 (as amended): a backend operation that raises a timeout on every
\* attempt is attempted exactly 3 times by one call_api call, with two sleeps
\* in between, and call_api then raises TimeoutError; when the handler does
\* not catch that error itself, the invocation is answered with an error
\* envelope whose error.type is TimeoutError.
C3_TimeoutExhausted ==
    /\ Len(inv.tried) <= 3
    /\ CallFailedOnTimeouts =>
          /\ Len(inv.tried) = 3
          /\ Len(inv.waits) = 2
          /\ inv.last = "TimeoutError"
    /\ (Answered /\ CallFailedOnTimeouts /\ ~HandlerCatches) =>
          /\ Response.success = FALSE
          /\ ErrorType(Response) = "TimeoutError"

\* an invocation whose handler lets the error through was answered after
\* three timeouts
C3_Witness ==
    /\ Answered /\ CallFailedOnTimeouts /\ ~HandlerCatches
    /\ Len(inv.tried) = 3
    /\ ErrorType(Response) = "TimeoutError"

\* C3 (as written): every invocation whose backend operation raised a timeout
\* on all 3 attempts is answered with an error envelope of error.type
\* TimeoutError.
C3_AlwaysTimeoutEnvelope ==
    (Answered /\ CallFailedOnTimeouts) =>
        /\ Len(inv.tried) = 3
        /\ Response.success = FALSE
        /\ ErrorType(Response) = "TimeoutError"

\* C4: an attempt that fails with anything other than TimeoutError or
\* NetworkError is the last attempt of its call_api call: no sleep and no
\* further attempt follows it, and call_api raises that error. When it is the
\* first attempt, the operation has been attempted exactly once.
C4_OtherFailuresNotRetried ==
    \A k \in DOMAIN inv.tried :
        inv.tried[k] \notin {"TimeoutError", "NetworkError"} =>
            /\ k = Len(inv.tried)
            /\ inv.pc # "wait"
            /\ inv.last = inv.tried[k]
            /\ Len(inv.waits) = k - 1

\* a not-found failure ended a call after its single attempt
C4_Witness ==
    /\ Answered
    /\ inv.tried = <<"ResourceNotFoundError">>
    /\ inv.ops = <<"head_object">>
    /\ inv.waits = <<>>
    /\ ErrorType(Response) = "ResourceNotFoundError"

C6_DataXorError ==
    Answered =>
        /\ Len(inv.returned) = 1
        /\ \/ /\ Response.success = TRUE
              /\ "data" \in DOMAIN Response
              /\ "error" \notin DOMAIN Response
           \/ /\ Response.success = FALSE
              /\ "error" \in DOMAIN Response
              /\ "data" \notin DOMAIN Response

\* an invocation answered through format_error_response
C6_Witness ==
    /\ Answered
    /\ inv.exc \in AIDPErrors
    /\ Response.success = FALSE
    /\ "error" \in DOMAIN Response

\* C7: the metadata of every envelope a tool invocation returns holds the
\* invocation's request_id, an execution_time_ms >= 0 and a timestamp.
C7_MetadataComplete ==
    Answered =>
        /\ "request_id" \in DOMAIN Response.metadata
        /\ Response.metadata.request_id = inv.request_id
        /\ "execution_time_ms" \in DOMAIN Response.metadata
        /\ Response.metadata.execution_time_ms >= 0
        /\ "timestamp" \in DOMAIN Response.metadata

\* C8: no exception leaves handle_call_tool: an invocation whose handler (or
\* the routing) raised, whatever the exception, is answered with exactly one
\* envelope, of success = false, and the server goes on to serve the
\* invocations that follow.
C8_NoExceptionEscapes ==
    /\ inv.pc # "crashed"
    /\ Answered =>
          /\ Len(inv.returned) = 1
          /\ inv.exc # None => Response.success = FALSE
    /\ inv.pc = "done" => ENABLED Deliver
    /\ inv.pc = "idle" => ENABLED CallTool("list_workspaces", Nothing)

\* an exception that is not an AIDPError was raised and answered
C8_Witness ==
    /\ Answered
    /\ inv.exc \notin AIDPErrors \cup {None}
    /\ Response.success = FALSE
    /\ ErrorType(Response) = "UnexpectedError"

\* the modules of the feature areas the configuration enables
EnabledModules ==
    {ModuleOf(Areas[k]) : k \in {j \in DOMAIN Areas : settings.features[Areas[j]]}}

\* the modules that register a descriptor under the invoked name of which
\* the arguments hold exactly the required fields
RegisteringModules ==
    {m \in EnabledModules :
        \E k \in DOMAIN GetTools(m) :
            /\ GetTools(m)[k].name = inv.name
            /\ inv.arguments = AllPresent(GetTools(m)[k].required)}

\* C9: an invocation of a listed tool, with the arguments its descriptor
\* requires, is routed to the handler of the module that registered the
\* descriptor, and is not answered with an unknown-tool failure.
C9_ListedToolsDispatch ==
    (inv.kind = "tool" /\ inv.name \in ListedNames) =>
        /\ \A m \in RegisteringModules : inv.module = m
        /\ (inv.pc = "done" /\ RegisteringModules # {}
               /\ "error" \in DOMAIN Response) =>
              ~StartsWith(Response.error.message, "Unknown tool")

\* C10: the tool listing holds no name twice.
C10_NoDuplicateNames ==
    (inv.kind = "list" /\ inv.pc = "done") =>
        \A j, k \in DOMAIN inv.returned[1] :
            j # k => inv.returned[1][j] # inv.returned[1][k]

\* C11: a tool of a disabled feature area is not in the registry: the listing
\* holds only names that an enabled area registers, and invoking a name that
\* only disabled areas register invokes no handler and is answered with the
\* unknown-tool failure.
C11_DisabledAreaUnregistered ==
    /\ (inv.kind = "list" /\ inv.pc = "done") =>
          \A k \in DOMAIN inv.returned[1] :
              \E m \in EnabledModules :
                  inv.returned[1][k] \in Range(Names(GetTools(m)))
    /\ (inv.kind = "tool" /\ inv.name \in AllToolNames \ ListedNames) =>
          /\ ~HandlerInvoked
          /\ inv.ops = <<>>
          /\ inv.pc = "done" =>
                /\ Response.success = FALSE
                /\ StartsWith(Response.error.message, "Unknown tool")

\* C12: any two invocations have distinct request_ids, also when both start
\* within the same clock millisecond: the request_id of the invocation in
\* progress is the request_id of no invocation answered before it.
C12_DistinctRequestIds ==
    inv.kind = "tool" => inv.request_id \notin issued

\* ================================================== the functions on their own
\* A second specification: one call of one function of utils/ or of
\* OCIClient, with its arguments drawn from the sets below. inv holds the
\* call: pc is "called" before and "returned" after it, fn the function.

\* the longest required_fields list
MaxRequired == 3

FieldNames == {"bucket_name", "object_name", "limit"}

\* the values of a dict entry: a string, the empty string, None
FieldValues == {"value", "", None}

\* the dicts over FieldNames and the lists of up to MaxRequired field names
Dicts == UNION {[D -> FieldValues] : D \in SUBSET FieldNames}
FieldLists == UNION {[1..k -> FieldNames] : k \in 0..MaxRequired}

ValidateRequiredFieldsCalls ==
    {[pc |-> "called", fn |-> "validate_required_fields", data |-> d,
      before |-> d, required_fields |-> r, raised |-> NoExc]
        : d \in Dicts, r \in FieldLists}

\* the largest HTTP status a ServiceError carries
MaxStatus == 600

\* api_func raising: a ServiceError of any status, a connect timeout, another
\* request failure, or an exception that is none of the SDK's
ClassifyCalls ==
    {[pc |-> "called", fn |-> "call_api", e |-> e, raised |-> NoExc]
        : e \in {BackendExc("ServiceError", st) : st \in 0..MaxStatus}
               \cup {BackendExc("ConnectTimeout", 0),
                     BackendExc("RequestException", 0),
                     BackendExc("RuntimeError", 0)}}

\* the most attempts a wait is computed for
MaxAttemptNumber == 6

\* the wait strategy of the retry decorator, asked for the wait after the
\* first attempt, then after the second, and so on
WaitCalls ==
    {[pc |-> "called", fn |-> "wait_exponential", waits |-> <<>>]}

RECURSIVE Repeat(_, _)
\* s * n
Repeat(s, n) ==
    IF n = 0 THEN ""
    ELSE IF n % 2 = 0 THEN Repeat(s, n \div 2) \o Repeat(s, n \div 2)
    ELSE s \o Repeat(s, n - 1)

\* bucket names that break no rule, one rule or several: up to, at and over
\* the length limit, with periods at either end and inside, with characters
\* outside the allowed set
LongBucketNames ==
    {Repeat("a", MaxBucketNameLen),
     Repeat("a", MaxBucketNameLen - 1) \o ".",
     "." \o Repeat("a", MaxBucketNameLen),
     Repeat("a", MaxBucketNameLen) \o ".",
     Repeat("a", MaxBucketNameLen + 1),
     ".." \o Repeat("a ", MaxBucketNameLen)}

ShortBucketNames ==
    {"my-bucket", "my_bucket.v2", ".hidden", "logs.", ".", "..", ".a..b",
     "a..b.", ".my bucket", "my bucket.", ".a..b c.", "a..b", "my bucket",
     "a..b c", ""}

ValidateBucketNameCalls ==
    {[pc |-> "called", fn |-> "validate_bucket_name", bucket_name |-> b,
      raised |-> NoExc] : b \in ShortBucketNames \cup LongBucketNames}

\* one call of the decorated call_api: attempts holds what api_func raised
\* in the attempts made so far
RetryingCalls ==
    {[pc |-> "called", fn |-> "retry(call_api)", attempts |-> <<>>,
      raised |-> NoExc]}

FnCalls ==
    ValidateRequiredFieldsCalls \cup ClassifyCalls \cup WaitCalls
    \cup ValidateBucketNameCalls \cup RetryingCalls

FnInit ==
    /\ settings = [features |-> AllEnabled, level |-> "INFO",
                   performance |-> PerformanceConfig]
    /\ handles = [s \in Services |-> <<>>]
    /\ built = [s \in Services |-> 0]
    /\ epoch = 0
    /\ now = 0
    /\ issued = {}
    /\ inv \in FnCalls

\* validate_required_fields(data, required_fields): it reads data and
\* either returns None or raises
CallValidateRequiredFields ==
    /\ inv.pc = "called" /\ inv.fn = "validate_required_fields"
    /\ inv' = [inv EXCEPT !.pc = "returned",
                          !.raised = ValidateRequiredFields(inv.data,
                                                            inv.required_fields)]
    /\ UNCHANGED <<issued, settings, handles, built, epoch, now>>

\* one attempt of call_api in which api_func raises e
CallApiRaises ==
    /\ inv.pc = "called" /\ inv.fn = "call_api"
    /\ inv' = [inv EXCEPT !.pc = "returned", !.raised = Classify(inv.e)]
    /\ UNCHANGED <<issued, settings, handles, built, epoch, now>>

\* wait_exponential for the next attempt number
CallWaitExponential ==
    /\ inv.pc = "called" /\ inv.fn = "wait_exponential"
    /\ Len(inv.waits) < MaxAttemptNumber
    /\ inv' = [inv EXCEPT !.waits =
                   Append(@, WaitExponential(Len(inv.waits) + 1))]
    /\ UNCHANGED <<issued, settings, handles, built, epoch, now>>

\* validate_bucket_name(bucket_name): it returns None or raises
CallValidateBucketName ==
    /\ inv.pc = "called" /\ inv.fn = "validate_bucket_name"
    /\ inv' = [inv EXCEPT !.pc = "returned",
                          !.raised = ValidateBucketName(inv.bucket_name)]
    /\ UNCHANGED <<issued, settings, handles, built, epoch, now>>

\* one attempt of the decorated call_api: api_func returns, or raises e,
\* which call_api converts; the decorator then retries or raises
CallApiAttempt(e) ==
    /\ inv.pc = "called" /\ inv.fn = "retry(call_api)"
    /\ inv' = IF e = NoBackendExc
              THEN [inv EXCEPT !.pc = "returned"]
              ELSE IF RetryAgain(Classify(e), Len(inv.attempts) + 1)
              THEN [inv EXCEPT !.attempts = Append(@, e)]
              ELSE [inv EXCEPT !.pc = "returned",
                               !.attempts = Append(@, e),
                               !.raised = RaisedOnStop(Classify(e))]
    /\ UNCHANGED <<issued, settings, handles, built, epoch, now>>

FnNext ==
    \/ \E e \in {NoBackendExc} \cup BackendExcs : CallApiAttempt(e)
    \/ CallValidateBucketName
    \/ CallValidateRequiredFields
    \/ CallApiRaises
    \/ CallWaitExponential

FnSpec == FnInit /\ [][FnNext]_vars

\* a call of function fn has returned or raised
Returned(fn) == inv.pc = "returned" /\ inv.fn = fn

RECURSIVE AbsentOrNull(_, _)
\* the fields of a list that are absent from data or None in it, in order
AbsentOrNull(data, fields) ==
    IF fields = <<>> THEN <<>>
    ELSE (IF Head(fields) \notin DOMAIN data THEN <<Head(fields)>>
          ELSE IF data[Head(fields)] = None THEN <<Head(fields)>>
          ELSE <<>>) \o AbsentOrNull(data, Tail(fields))

\* C13: validate_required_fields(data, required_fields) raises
\* ValidationError exactly when some field of required_fields is absent from
\* data or None in it; details.missing_fields is then the list of all those
\* fields in the order of required_fields; data is left as it was.
C13_RequiredFields ==
    Returned("validate_required_fields") =>
        /\ inv.data = inv.before
        /\ inv.raised # NoExc <=>
              \E k \in DOMAIN inv.required_fields :
                  \/ inv.required_fields[k] \notin DOMAIN inv.data
                  \/ inv.data[inv.required_fields[k]] = None
        /\ inv.raised # NoExc =>
              /\ inv.raised.cls = "ValidationError"
              /\ inv.raised.details.missing_fields =
                     AbsentOrNull(inv.data, inv.required_fields)

\* two of three required fields are missing, one absent and one None, and
\* both are reported, in the order of required_fields
C13_Witness ==
    /\ Returned("validate_required_fields")
    /\ inv.required_fields = <<"object_name", "limit", "bucket_name">>
    /\ inv.data = [bucket_name |-> None, limit |-> ""]
    /\ inv.raised.cls = "ValidationError"
    /\ inv.raised.details.missing_fields = <<"object_name", "bucket_name">>

\* the taxonomy class C14 gives for what api_func raised
KindByStatus(e) ==
    CASE e.cls = "ServiceError" /\ e.status = 401 -> "AuthenticationError"
      [] e.cls = "ServiceError" /\ e.status = 404 -> "ResourceNotFoundError"
      [] e.cls = "ServiceError" /\ e.status = 429 -> "RateLimitError"
      [] e.cls = "ServiceError" /\ e.status \notin {401, 404, 429} -> "APIError"
      [] e.cls = "ConnectTimeout" -> "TimeoutError"
      [] e.cls = "RequestException" -> "NetworkError"
      [] OTHER -> "APIError"

\* C14: call_api classifies what the backend raises: a ServiceError of status
\* 401 as AuthenticationError, 404 as ResourceNotFoundError, 429 as
\* RateLimitError, any status >= 500 and any other status as APIError; a
\* connect timeout as TimeoutError and any other request failure as
\* NetworkError. Each failure gets exactly one class.
C14_Classification ==
    Returned("call_api") =>
        /\ inv.raised.cls = KindByStatus(inv.e)
        /\ inv.raised.cls \in AIDPErrors
        /\ inv.raised.original_error = <<inv.e>>

\* a connect timeout, which is also a RequestException, was classified
C14_Witness ==
    /\ Returned("call_api")
    /\ inv.e.cls = "ConnectTimeout"
    /\ inv.raised.cls = "TimeoutError"

\* C15: when a backend operation fails with TimeoutError or NetworkError on
\* its first k attempts, k < 3, and then succeeds, call_api returns the
\* result: there were k sleeps and k + 1 attempts, the handler gets the
\* result, and the envelope of the invocation has success = true.
C15_SuccessAfterRetries ==
    (inv.kind = "tool" /\ inv.last = "ok") =>
        /\ Len(inv.tried) < 3
        /\ \A k \in DOMAIN inv.tried :
              inv.tried[k] \in {"TimeoutError", "NetworkError"}
        /\ Len(inv.waits) = Len(inv.tried)
        /\ inv.results # <<>> /\ inv.results[Len(inv.results)] = "ok"
        /\ Len(inv.results) = 1 => Len(inv.ops) = Len(inv.tried) + 1
        /\ inv.pc = "done" =>
              /\ Response.success = TRUE
              /\ Response.data.results = inv.results

\* list_buckets succeeded on its third attempt, after a network failure and
\* a timeout
C15_Witness ==
    /\ Answered /\ inv.name = "list_buckets" /\ inv.last = "ok"
    /\ inv.tried = <<"NetworkError", "TimeoutError">>
    /\ inv.ops = <<"list_buckets", "list_buckets", "list_buckets">>
    /\ Response.success = TRUE

\* 2^attempt, by repeated doubling
TwoToThe(attempt) ==
    LET d[n \in 0..attempt] == IF n = 0 THEN 1 ELSE d[n - 1] + d[n - 1]
    IN  d[attempt]

\* C16: the k-th wait of a call_api call is
\* min(10, max(2, 1 * 2^attempt)) seconds with attempt = k - 1 (0 for the
\* first wait); every wait lies in [2, 10] and the waits never decrease.
C16_WaitFormula ==
    inv.fn = "wait_exponential" =>
        \A k \in DOMAIN inv.waits :
            /\ LET claimed == IF TwoToThe(k - 1) < 2 THEN 2 ELSE TwoToThe(k - 1)
               IN  inv.waits[k] = IF claimed > 10 THEN 10 ELSE claimed
            /\ 2 <= inv.waits[k] /\ inv.waits[k] <= 10
            /\ k > 1 => inv.waits[k - 1] <= inv.waits[k]

\* the waits after attempts 1 to 5: two at the minimum, then doubling, then
\* the cap
C16_Witness ==
    /\ inv.fn = "wait_exponential"
    /\ Len(inv.waits) >= 5
    /\ SubSeq(inv.waits, 1, 5) = <<2, 2, 4, 8, 10>>

\* C17: close() clears all five service handles; after it, a service's handle
\* is built anew on the next access, once, and neither the stored handle nor
\* the handle a call is made with was built before the last close().
C17_CloseClearsHandles ==
    /\ [][epoch' # epoch => \A s \in Services : handles'[s] = <<>>]_vars
    /\ [](\A s \in Services :
            /\ handles[s] # <<>> => handles[s][1] = epoch
            /\ built[s] <= 1
            /\ (inv.pc \in {"call", "wait"} /\ Head(inv.todo).svc = s) =>
                  inv.client[1] = epoch /\ inv.client = handles[s])

\* after a close(), list_buckets is called with a handle built since
C17_Witness ==
    /\ epoch = 1
    /\ inv.kind = "tool" /\ inv.name = "list_buckets" /\ inv.pc = "call"
    /\ handles["object_storage"] = <<1, 1>>
    /\ inv.client = <<1, 1>>
    /\ handles["identity"] = <<>>

\* the SDK client's constructor raised during the invocation and the handler
\* let the exception through
ConstructionFailed == inv.exc = "InvalidConfig"

\* C18: when the construction of a service client fails, the invocation is
\* answered with a ConfigurationError or AuthenticationError, and no handle
\* is cached for the service: a handle is stored only by a construction that
\* returned.
C18_ConstructionFailure ==
    /\ \A s \in Services : handles[s] = <<>> <=> built[s] = 0
    /\ (Answered /\ ConstructionFailed) =>
          /\ Response.success = FALSE
          /\ ErrorType(Response) \in {"ConfigurationError", "AuthenticationError"}

\* the create_bucket operation (the function called directly, or the tool)
\* runs with a bucket name that starts with a period or holds two in a row
CreateBucketBadPeriods ==
    /\ inv.kind \in {"direct", "tool"} /\ inv.name = "create_bucket"
    /\ "bucket_name" \in DOMAIN inv.arguments
    /\ inv.arguments.bucket_name \in {".invalid-bucket", "invalid..bucket"}

\* C19: create_bucket with a bucket name that starts with a period or contains
\* two consecutive periods raises ValidationError and makes no backend call.
C19_CreateBucketValidates ==
    CreateBucketBadPeriods =>
        /\ inv.ops = <<>>
        /\ inv.pc \in {"idle", "done"}
        /\ inv.pc = "done" => inv.exc = "ValidationError"

\* the upload_object operation (the function called directly, or the tool)
\* runs with a file_path that names no existing file
UploadMissingFile ==
    /\ inv.kind \in {"direct", "tool"} /\ inv.name = "upload_object"
    /\ "file_path" \in DOMAIN inv.arguments
    /\ inv.arguments.file_path = "/nonexistent/file.txt"

\* C20: upload_object with a local file path that does not exist raises
\* ValidationError before any backend call: put_object is never attempted
\* for that invocation.
C20_UploadMissingFile ==
    UploadMissingFile =>
        /\ inv.ops = <<>>
        /\ inv.pc = "done"
        /\ inv.exc = "ValidationError"
        /\ inv.kind = "tool" => ErrorType(Response) = "ValidationError"

\* the function itself, called directly with valid names and a missing file,
\* raised the file-not-found error
C20_Witness ==
    /\ UploadMissingFile /\ inv.kind = "direct"
    /\ inv.arguments.object_name = "report.csv"
    /\ inv.pc = "done" /\ inv.exc = "ValidationError"
    /\ inv.ops = <<>> /\ inv.returned = <<>>

\* the modules in feature-area registration order
RegistrationOrder ==
    <<"instance", "catalog", "storage", "compute", "notebooks", "jobs",
      "pipelines", "connections", "ml_models", "analytics">>

\* the names of the enabled modules' tools, module after module in
\* registration order
NamesInRegistrationOrder(features) ==
    LET area(m) == CHOOSE a \in Range(Areas) : ModuleOf(a) = m
        upTo[k \in 0..Len(RegistrationOrder)] ==
            IF k = 0 THEN <<>>
            ELSE upTo[k - 1] \o
                 (IF features[area(RegistrationOrder[k])]
                  THEN Names(GetTools(RegistrationOrder[k])) ELSE <<>>)
    IN  upTo[Len(RegistrationOrder)]

\* C21: every tool listing is the enabled modules' descriptors in
\* registration order, whatever invocations and close() calls came before,
\* and the configuration it is computed from never changes: two listings
\* are therefore the same descriptors in the same order.
C21_ListingIdempotent ==
    /\ [][settings' = settings]_vars
    /\ []((inv.kind = "list" /\ inv.pc = "done") =>
             inv.returned[1] = NamesInRegistrationOrder(settings.features))

\* a listing after two tool invocations were answered and the clients closed
C21_Witness ==
    /\ inv.kind = "list" /\ inv.pc = "done"
    /\ issued = {"req_0", "req_1"}
    /\ epoch = 1
    /\ inv.returned[1][1] = "get_instance_status"

\* the invocation was answered with the error call_api raised in its last
\* backend call
AnsweredCallFailure ==
    /\ Answered
    /\ inv.tried # <<>>
    /\ inv.last \in AIDPErrors
    /\ inv.exc = inv.last

\* C22: without DEBUG logging the envelope of a failed backend call has no
\* original_error and no traceback, and it is the envelope any other backend
\* exception of the same taxonomy kind would have given, up to timestamp and
\* request_id.
C22_EnvelopeIndependentOfCause ==
    (AnsweredCallFailure /\ settings.level # "DEBUG") =>
        /\ "original_error" \notin DOMAIN Response.error
        /\ "traceback" \notin DOMAIN Response.error
        /\ \A e \in BackendExcs :
              Classify(e).cls = inv.exc =>
                  FormatErrorResponse(Classify(e), Some(inv.request_id),
                                      FALSE, now).error = Response.error

\* the part of C22 that holds: neither original_error nor traceback
C22_NoCauseFields ==
    (AnsweredCallFailure /\ settings.level # "DEBUG") =>
        /\ "original_error" \notin DOMAIN Response.error
        /\ "traceback" \notin DOMAIN Response.error

\* validate_bucket_name was called with a non-empty name that starts or
\* ends with a period
PeriodAtAnEnd ==
    /\ Returned("validate_bucket_name")
    /\ inv.bucket_name # ""
    /\ \/ SubSeq(inv.bucket_name, 1, 1) = "."
       \/ SubSeq(inv.bucket_name, Len(inv.bucket_name),
                 Len(inv.bucket_name)) = "."

RejectedForPeriod ==
    /\ inv.raised.cls = "ValidationError"
    /\ inv.raised.message = "Bucket name cannot start or end with a period"

\* C23 as amended: validate_bucket_name rejects every non-empty bucket name
\* of at most 256 characters that starts or ends with a period with the
\* ValidationError "cannot start or end with a period", whatever it has of
\* consecutive periods and characters outside the allowed set; a name of
\* more than 256 characters is rejected as too long, wherever its periods
\* are.
C23_PeriodRejected ==
    PeriodAtAnEnd =>
        IF Len(inv.bucket_name) <= 256
        THEN RejectedForPeriod
        ELSE /\ inv.raised.cls = "ValidationError"
             /\ inv.raised.message = "Bucket name too long (max 256 characters)"
             /\ inv.raised.details = [length |-> Len(inv.bucket_name)]

\* a name that starts and ends with a period, has consecutive periods and
\* a space, was rejected for its first and last character
C23_Witness ==
    /\ PeriodAtAnEnd
    /\ inv.bucket_name = ".a..b c."
    /\ RejectedForPeriod

\* C23 as stated: the period message whatever other rule the name breaks,
\* the length rule included
C23_PeriodRejectedAnyLength ==
    PeriodAtAnEnd => RejectedForPeriod

\* another request's coroutine can take a step: a listing or a tool
\* invocation is started
OtherRequestRuns ==
    \/ ListTools
    \/ \E name \in CallNames :
         \E arguments \in Inputs[name] : CallTool(name, arguments)

\* C24: while a tool invocation is in a retry backoff or at a backend call,
\* another dispatched invocation can take its steps and complete.
C24_OthersProgressDuringWait ==
    (inv.kind = "tool" /\ inv.pc \in {"wait", "call"}) =>
        ENABLED OtherRequestRuns

\* C25: once an invocation is cancelled between two attempts of its
\* call_api retry loop, no further backend attempt is made and no envelope
\* is produced for it.
C25_CancelAbortsRetry ==
    [][(inv.cancelled /\ inv.pc \in {"wait", "call"}) =>
           /\ inv'.ops = inv.ops
           /\ inv'.returned = <<>>]_vars

\* ============================================ the handlers of several steps
\* A third specification: the server of Spec, invoked with the tools whose
\* handler makes a series of backend calls (move_object, delete_bucket) or
\* loops over a list of items (bulk_upload, bulk_download).

StepNames == {"move_object", "delete_bucket", "bulk_upload", "bulk_download"}

DestDirectories == {"/tmp/downloads", "/proc/downloads"}

StepArgChoices(name) ==
    CASE name = "move_object" ->
            {AllPresent(<<"source_bucket", "source_object", "dest_bucket",
                          "dest_object">>),
             AllPresent(<<"source_bucket", "source_object", "dest_bucket">>)}
      [] name = "delete_bucket" ->
            {EmptyDict, [bucket_name |-> "my-bucket"]}
            \cup {[bucket_name |-> "my-bucket", force |-> f]
                    : f \in {PyTrue, PyFalse}}
      [] name = "bulk_upload" ->
            {[bucket_name |-> "my-bucket"]}
            \cup {[bucket_name |-> "my-bucket", file_paths |-> ListValue(l)]
                    : l \in ListsOf(FilePaths)}
            \cup {[bucket_name |-> "my-bucket", file_paths |-> ListValue(l),
                   prefix |-> "reports"] : l \in {<<>>, <<"/data/report.csv">>}}
      [] name = "bulk_download" ->
            {[bucket_name |-> "my-bucket", object_names |-> ListValue(l)]
                    : l \in ListsOf(ObjectNames)}
            \cup {[bucket_name |-> "my-bucket", object_names |-> ListValue(l),
                   dest_directory |-> d]
                    : l \in ListsOf(ObjectNames), d \in DestDirectories}

\* the arguments parameter of handle_call_tool for these tools
StepInputs == [name \in StepNames |-> {Some(a) : a \in StepArgChoices(name)}]

StepsNext ==
    \/ \E name \in StepNames :
         \E arguments \in StepInputs[name] : CallTool(name, arguments)
    \/ \E ok \in BOOLEAN : AccessClient(ok)
    \/ LocalStep
    \/ \E e \in {NoBackendExc} \cup BackendExcs : Attempt(e)
    \/ Backoff
    \/ Deliver

StepsSpec == Init /\ [][StepsNext]_vars

\* move_object or delete_bucket was answered after the handler raised at a
\* step that is not its first: the steps in inv.results had succeeded
PartwayFailure ==
    /\ Answered
    /\ inv.module = "storage" /\ inv.name \in {"move_object", "delete_bucket"}
    /\ inv.results # <<>>
    /\ inv.exc # None

\* C26: a multi-step handler that fails partway is answered with an error
\* envelope, and the error tells which step failed: it is not the error a
\* failure of the handler's first step gives.
C26_PartialFailureIdentified ==
    PartwayFailure =>
        /\ Response.success = FALSE
        /\ \A e \in BackendExcs :
              Envelope(inv, Classify(e)).error # Response.error

\* the part of C26 that holds: the answer is an error envelope
C26_PartialFailureIsError ==
    PartwayFailure => (Response.success = FALSE /\ "data" \notin DOMAIN Response)

\* the taxonomy errors call_api raises
CallApiErrors ==
    {"AuthenticationError", "ResourceNotFoundError", "RateLimitError",
     "APIError", "TimeoutError", "NetworkError"}

\* C27: whatever api_func raises, the error that leaves the decorated
\* call_api is one of the six taxonomy errors, it is the one classified from
\* the last attempt, also when the attempts are exhausted, and its
\* original_error is what api_func raised in that attempt.
C27_TaxonomyErrorsOnly ==
    (Returned("retry(call_api)") /\ inv.raised # NoExc) =>
        LET last == inv.attempts[Len(inv.attempts)]
        IN  /\ inv.raised.cls \in CallApiErrors
            /\ inv.raised.cls = KindByStatus(last)
            /\ inv.raised.original_error = <<last>>
            /\ inv.raised.original_error[1].message = last.message

\* three attempts: a connect timeout first, another request failure last;
\* the NetworkError of the last attempt is raised, with its cause
C27_Witness ==
    /\ Returned("retry(call_api)")
    /\ Len(inv.attempts) = 3
    /\ inv.attempts[1].cls = "ConnectTimeout"
    /\ inv.attempts[3].cls = "RequestException"
    /\ inv.raised.cls = "NetworkError"
    /\ inv.raised.original_error = <<inv.attempts[3]>>

\* a move_object invocation
MoveInvoked ==
    inv.kind = "tool" /\ inv.module = "storage" /\ inv.name = "move_object"

\* C28: in move_object a delete_object call is issued only after a
\* copy_object call that returned; when the copy fails, also after its
\* retries, the invocation ends in an error without any delete_object call,
\* so the source object stays where it is.
C28_DeleteOnlyAfterCopy ==
    MoveInvoked =>
        /\ \A k \in DOMAIN inv.ops :
              inv.ops[k] = "delete_object" =>
                  /\ k > 1 /\ inv.ops[1] = "copy_object"
                  /\ inv.results # <<>> /\ inv.results[1] = "ok"
        /\ (inv.pc = "done" /\ inv.ops # <<>> /\ inv.results = <<>>) =>
              /\ \A k \in DOMAIN inv.ops : inv.ops[k] = "copy_object"
              /\ Response.success = FALSE

\* the copy timed out three times: three copy attempts, no delete
C28_Witness ==
    /\ MoveInvoked /\ inv.pc = "done"
    /\ inv.ops = <<"copy_object", "copy_object", "copy_object">>
    /\ inv.tried = <<"TimeoutError", "TimeoutError", "TimeoutError">>
    /\ ErrorType(Response) = "TimeoutError"

\* bulk_upload or bulk_download was answered after its handler got to its
\* loop: the required fields were there and, for bulk_download, the
\* destination directory could be created
BulkAnswered(name, list) ==
    /\ Answered /\ inv.module = "storage" /\ inv.name = name
    /\ \A f \in {"bucket_name", list} :
          f \in DOMAIN inv.arguments /\ inv.arguments[f] # None
    /\ name = "bulk_download" =>
          /\ "dest_directory" \in DOMAIN inv.arguments
          /\ inv.arguments["dest_directory"] \in CreatableDirectories

\* the envelope is a success envelope whose data has one results entry per
\* item of the list, in the list's order, and counters that add up
OneEntryPerItem(list, key, total) ==
    LET items == Elements(inv.arguments[list])
        data == Response.data
    IN  /\ Response.success = TRUE
        /\ "error" \notin DOMAIN Response
        /\ Len(data.results) = Len(items)
        /\ \A k \in DOMAIN items :
              /\ data.results[k][key] = items[k]
              /\ data.results[k].status \in {"success", "failed"}
        /\ data[total] = Len(items)
        /\ data.successful + data.failed = Len(items)
        /\ data.successful =
              Cardinality({k \in DOMAIN items : data.results[k].status = "success"})

C30_RetryKnobsIgnored ==
    /\ Len(inv.tried) <= 3
    /\ Len(inv.waits) <= 2
    /\ \A k \in DOMAIN inv.waits : inv.waits[k] >= 2 /\ inv.waits[k] <= 10
    /\ inv.pc = "wait" => Len(inv.tried) < 3
    /\ inv.last \in {"TimeoutError", "NetworkError"} =>
          /\ Len(inv.tried) = 3
          /\ inv.waits = <<2, 2>>

\* MAX_RETRIES=1 and a backoff of 1 second are configured, and a call was
\* given up after three attempts with sleeps of 2 seconds
C30_Witness ==
    /\ settings.performance.retry_max_attempts = 1
    /\ settings.performance.retry_backoff_seconds = 1
    /\ inv.last = "TimeoutError"
    /\ Len(inv.tried) = 3
    /\ inv.waits = <<2, 2>>

====
